---- MODULE Spec2Model ----
(***************************************************************************)
(* MongoStorage (server/mongo-storage) of CryptoMeowCasino: the document   *)
(* store behind users, deposits, withdrawals, game history, the jackpot    *)
(* and the farm cats, as a state machine.  Every await on the store is one *)
(* atomic step; the code between two awaits runs with it.  With it, the    *)
(* client's BackgroundMusicManager (lib/sounds): the tracks it detects,    *)
(* the one it plays and the calls of play() that wait for the browser.     *)
(***************************************************************************)
EXTENDS Integers, Sequences, FiniteSets, TLC

\* ------------------------------------------------------------- bounds ----

\* ObjectIds generated in one run: the documents saved, of all collections.
MaxOids == 3
\* Updates of stored documents that stamp the time (the jackpot's amount,
\* the cats' lastClaimed).
MaxUpdates == 1
\* The 3-byte counter of the first generated ObjectId.
OidCounterStart == 9

\* Concurrent calls in flight.
Proc == {1, 2}

\* ---------------------------------------------------- document identifiers

\* An ObjectId is its 24 hex digits, each a number in 0..15.
OidLen == 24

\* The 4-byte timestamp and 5-byte random value of a generated ObjectId
\* (65f1c0a2 / 7b3e9d4c1a): the timestamp of any date after 1970 is not 0.
OidPrefix == <<6, 5, 15, 1, 12, 0, 10, 2, 7, 11, 3, 14, 9, 13, 4, 12, 1, 10>>

RECURSIVE ToDigits(_, _)
\* Number.prototype.toString(base) of a non-negative integer, as digits.
ToDigits(n, base) ==
    IF n < base THEN <<n>> ELSE Append(ToDigits(n \div base, base), n % base)

RECURSIVE padStart(_, _, _)
\* String.prototype.padStart
padStart(s, len, c) == IF Len(s) >= len THEN s ELSE padStart(<<c>> \o s, len, c)

RECURSIVE ParseDigits(_, _, _)
\* parseInt(s, base) after the first digit: digits are read while they are
\* digits of the base.
ParseDigits(s, base, acc) ==
    IF s = <<>> \/ Head(s) >= base THEN acc
    ELSE ParseDigits(Tail(s), base, acc * base + Head(s))

NaN == -1
\* null, where a number is expected
NullNum == -2

\* parseInt(s, base): NaN when the first character is no digit of the base.
parseInt(s, base) ==
    IF s = <<>> \/ Head(s) >= base THEN NaN ELSE ParseDigits(s, base, 0)

\* s.slice(-6)
sliceLast6(s) == SubSeq(s, Len(s) - 5, Len(s))

\* ObjectIds 000000000000000000000001, ...02, ...: the ids derived from
\* them are the ids under which they are looked up.
SmallObjectId(n) == padStart(ToDigits(n + 1, 10), OidLen, 0)

\* The ObjectId mongoose generates for the n-th document saved.
GeneratedObjectId(n) ==
    OidPrefix \o padStart(ToDigits((OidCounterStart + n) % 16777216, 16), 6, 0)

\* The ObjectId whose last six hex digits spell the number: the inverse of
\* the id that the conversions report.
ObjectIdOfReportedId(id) == OidPrefix \o padStart(ToDigits(id, 16), 6, 0)

\* new mongoose.Types.ObjectId(id.toString().padStart(24, '0'))
ObjectIdOfNumber(id) == padStart(ToDigits(id, 10), OidLen, 0)

\* parseInt(doc._id.toString().slice(-6), 16)
NumericId(oid) == parseInt(sliceLast6(oid), 16)

\* parseInt(doc.userId.toString())
NumericRef(oid) == parseInt(oid, 10)

\* ---------------------------------------------------------------- amounts

\* A decimal string such as "1000.00": its digits as an integer (mant) and
\* the number of digits after the point (dec).  dec = -1 is a string that is
\* no number ("NaN", "abc"); Undefined is a missing value.
Str(m, d) == [mant |-> m, dec |-> d]
NaNStr == Str(0, -1)
Undefined == Str(0, -2)
\* null, where a string is expected
NullStr == Str(0, -3)

RECURSIVE Pow10(_)
Pow10(k) == IF k <= 0 THEN 1 ELSE 10 * Pow10(k - 1)

RECURSIVE Normalize(_, _)
\* A number m * 10^-e in lowest terms (trailing zeros dropped); e = -1 is NaN.
Normalize(m, e) ==
    IF e > 0 /\ m % 10 = 0 THEN Normalize(m \div 10, e - 1) ELSE [m |-> m, e |-> e]

NaNNum == [m |-> 0, e |-> -1]
Zero == [m |-> 0, e |-> 0]

\* parseFloat(s)
parseFloat(s) == IF s.dec < 0 THEN NaNNum ELSE Normalize(s.mant, s.dec)

\* a + b
Plus(a, b) ==
    IF a.e < 0 \/ b.e < 0 THEN NaNNum
    ELSE LET e == IF a.e > b.e THEN a.e ELSE b.e
         IN  Normalize(a.m * Pow10(e - a.e) + b.m * Pow10(e - b.e), e)

\* a * 0.01
TimesOneHundredth(a) == IF a.e < 0 THEN NaNNum ELSE Normalize(a.m, a.e + 2)

\* a.toFixed(d), for a >= 0: d digits after the point, rounded half up.
toFixed(a, d) ==
    IF a.e < 0 THEN NaNStr
    ELSE IF a.e <= d THEN Str(a.m * Pow10(d - a.e), d)
    ELSE Str((a.m + 5 * Pow10(a.e - d - 1)) \div Pow10(a.e - d), d)

\* s || dflt, for a string or a missing value
OrElse(s, dflt) == IF s = Undefined THEN dflt ELSE s

\* --------------------------------------------------------------- passwords

\* A plaintext password, and what bcrypt.hash(plain, rounds) makes of it: a
\* "$2b$<rounds>$..." string that is never the plaintext.
Plain(t) == [kind |-> "plain", text |-> t, rounds |-> 0]
bcryptHash(pw, r) == [kind |-> "bcrypt", text |-> pw.text, rounds |-> r]

\* ------------------------------------------------------------------- state

VARIABLES
    isConnected,  \* MongoStorage.isConnected
    users,        \* the User collection: a set of documents
    deposits,     \* the Deposit collection
    withdrawals,  \* the Withdrawal collection
    games,        \* the GameHistory collection
    jackpots,     \* the Jackpot collection
    cats,         \* the FarmCat collection
    now,          \* the clock new Date() reads
    oids,         \* ObjectIds generated so far
    calls,        \* the calls in flight: per process, where it stands
    last,         \* the call that returned last: arguments and outcome
    backgroundMusicManager  \* the BackgroundMusicManager the client exports

store == <<users, deposits, withdrawals, games, jackpots, cats>>
storage == <<isConnected, users, deposits, withdrawals, games, jackpots, cats,
             now, oids, calls, last>>
vars == <<isConnected, users, deposits, withdrawals, games, jackpots, cats,
          now, oids, calls, last, backgroundMusicManager>>

NullOid == <<>>
NoTime == -1

\* What a call gives its caller.
RUndefined == [kind |-> "undefined"]
RNull == [kind |-> "null"]
RVoid == [kind |-> "void"]
RThrow == [kind |-> "throw"]
RDoc(d) == [kind |-> "doc", val |-> d]
RList(s) == [kind |-> "list", items |-> s]

Idle == [op |-> "idle"]
AllIdle == \A p \in Proc : calls[p].op = "idle"
NoInit == \A p \in Proc : calls[p].op # "init"
\* The free process a new call takes.
Free(p) == calls[p].op = "idle" /\ \A q \in Proc : q < p => calls[q].op # "idle"

\* The record of a returned call.  connected: isConnected when it was
\* called; failed: a store operation of the call failed; oid: the _id of
\* the document it saved; local: what the call held when it returned.
Returned(op, args, conn, failed, result, oid, local) ==
    [op |-> op, args |-> args, connected |-> conn, failed |-> failed,
     result |-> result, oid |-> oid, local |-> local]

\* A store operation either succeeds or fails (rejects); none is issued
\* while the storage is not connected.
Outcomes == IF isConnected THEN {FALSE, TRUE} ELSE {FALSE}

\* ------------------------------------------------------------- conversions

convertMongoUser(user) ==
    [id |-> NumericId(user._id), username |-> user.username,
     password |-> user.password, balance |-> user.balance,
     meowBalance |-> user.meowBalance, isAdmin |-> user.isAdmin,
     isBanned |-> user.isBanned, createdAt |-> user.createdAt]

convertMongoDeposit(deposit) ==
    [id |-> NumericId(deposit._id), userId |-> NumericRef(deposit.userId),
     amount |-> deposit.amount, status |-> deposit.status,
     receiptUrl |-> deposit.receiptUrl, createdAt |-> deposit.createdAt]

convertMongoWithdrawal(withdrawal) ==
    [id |-> NumericId(withdrawal._id), userId |-> NumericRef(withdrawal.userId),
     amount |-> withdrawal.amount, platform |-> withdrawal.platform,
     accountInfo |-> withdrawal.accountInfo, status |-> withdrawal.status,
     createdAt |-> withdrawal.createdAt]

convertMongoGameHistory(game) ==
    [id |-> NumericId(game._id), userId |-> NumericRef(game.userId),
     gameType |-> game.gameType, betAmount |-> game.betAmount,
     winAmount |-> game.winAmount, meowWon |-> game.meowWon,
     result |-> game.result, createdAt |-> game.createdAt]

\* The cat objects getFarmData, createFarmCat and getFarmCat build.
convertFarmCat(cat) ==
    [id |-> NumericId(cat._id), userId |-> NumericRef(cat.userId),
     catId |-> cat.catId, level |-> cat.level, production |-> cat.production,
     lastClaimed |-> cat.lastClaimed, createdAt |-> cat.createdAt]

\* The object getJackpot returns for a document.
convertJackpot(jackpot) ==
    [id |-> 1, amount |-> jackpot.amount,
     lastWinnerId |-> IF jackpot.lastWinnerId = NullOid THEN NullNum
                      ELSE NumericRef(jackpot.lastWinnerId),
     lastWonAt |-> jackpot.lastWonAt, updatedAt |-> jackpot.updatedAt]

\* The object getJackpot returns when not connected or on an error.
DefaultJackpot ==
    [id |-> 1, amount |-> Str(10000000, 8), lastWinnerId |-> NullNum,
     lastWonAt |-> NoTime, updatedAt |-> now]

\* The object getFarmData returns when not connected or on an error.
DefaultFarmData == [cats |-> <<>>, totalProduction |-> 0, unclaimedMeow |-> Str(0, 8)]

RECURSIVE SortNewestFirst(_)
\* Model.find().sort({ createdAt: -1 })
SortNewestFirst(S) ==
    IF S = {} THEN <<>>
    ELSE LET d == CHOOSE x \in S : \A y \in S : y.createdAt <= x.createdAt
         IN  <<d>> \o SortNewestFirst(S \ {d})

RECURSIVE SeqOf(_)
\* Model.find(query): the matching documents, in the store's order.
SeqOf(S) ==
    IF S = {} THEN <<>>
    ELSE LET d == CHOOSE x \in S : \A y \in S : x.createdAt <= y.createdAt
         IN  <<d>> \o SeqOf(S \ {d})

RECURSIVE SumProduction(_)
\* cats.reduce((sum, cat) => sum + cat.production, 0)
SumProduction(s) == IF s = <<>> THEN 0 ELSE Head(s).production + SumProduction(Tail(s))

Map(f(_), s) == [i \in 1..Len(s) |-> f(s[i])]

\* Model.findOne({ _id }): the document, or none.
ById(S, oid) == {d \in S : d._id = oid}

\* ------------------------------------------------------------------ inputs

\* What callers pass as insertUser: the registration form, and one that
\* carries fields of its own for the balances and flags.
InsertUsers ==
    { [username |-> "alice", password |-> Plain("hunter2"), balance |-> Undefined,
       meowBalance |-> Undefined, isAdmin |-> FALSE, isBanned |-> FALSE],
      [username |-> "bob", password |-> Plain("s3cret"), balance |-> Str(999999, 2),
       meowBalance |-> Str(500000000, 8), isAdmin |-> TRUE, isBanned |-> TRUE],
      [username |-> "admin", password |-> Plain("letmein"), balance |-> Undefined,
       meowBalance |-> Undefined, isAdmin |-> FALSE, isBanned |-> FALSE] }

\* The numeric ids a caller holds: those the storage reported for the
\* documents of a collection, or 1 while it has none.
IdsOf(S) == IF S = {} THEN {1} ELSE {NumericId(d._id) : d \in S}

\* ------------------------------------------------- BackgroundMusicManager

\* The numbered files detectAvailableTracks() asks for: bgm1.mp3 up to
\* bgm<MaxNumberedTracks>.mp3 (the source asks for ten).
MaxNumberedTracks == 3
\* Calls of play() waiting for audio.play() to settle, at any one time.
MaxPlays == 2

\* `bgm${i}.mp3`, and bgm.mp3 for i = 0.
TrackName(i) == IF i = 0 THEN <<"bgm", ".mp3">> ELSE <<"bgm", i, ".mp3">>
\* The string '' currentTrackName starts as.
NoTrackName == <<>>

\* The files of found, in the order detectAvailableTracks() asks for them.
RECURSIVE TracksFrom(_, _)
TracksFrom(i, found) ==
    IF i > MaxNumberedTracks THEN <<>>
    ELSE (IF i \in found THEN <<TrackName(i)>> ELSE <<>>) \o TracksFrom(i + 1, found)

\* What detectAvailableTracks() can resolve to: every fetch is ok or not.
detectAvailableTracks == {TracksFrom(0, found) : found \in SUBSET (0..MaxNumberedTracks)}

\* this.audio: null, or the HTMLAudioElement with its src, its paused
\* attribute and the promises of audio.play() not settled yet.
NullAudio == [exists |-> FALSE, src |-> NoTrackName, paused |-> TRUE, pending |-> 0]
NewAudio == [exists |-> TRUE, src |-> NoTrackName, paused |-> TRUE, pending |-> 0]

\* The fields of a BackgroundMusicManager after its constructor:
\* initializeAudio() stands at its await of detectAvailableTracks().
NewBackgroundMusicManager ==
    [audio |-> NullAudio, enabled |-> TRUE, isInitialized |-> FALSE,
     currentTrackIndex |-> 0, availableTracks |-> <<>>,
     currentTrackName |-> NoTrackName, pc |-> "detectAvailableTracks"]

\* loadCurrentTrack() on the manager m.  Setting src runs the element's
\* load algorithm, which leaves it paused.
loadCurrentTrack(m) ==
    IF ~m.audio.exists \/ Len(m.availableTracks) = 0 THEN m
    ELSE LET trackName == m.availableTracks[m.currentTrackIndex + 1] IN
         [m EXCEPT !.audio.src = trackName, !.audio.paused = TRUE,
                   !.currentTrackName = trackName]

\* play() on the manager m, up to its await: audio.play() starts playback
\* when the browser allows it, and its promise settles later.
play(m, allowed) ==
    IF ~m.audio.exists \/ ~m.enabled THEN m
    ELSE IF m.audio.paused
         THEN [m EXCEPT !.audio.paused = ~allowed, !.audio.pending = @ + 1]
         ELSE m

\* playNextTrack() staying on the track it is on.
SameTrackIndex(m) == m.currentTrackIndex

\* The index playNextTrack() moves to.
NextTrackIndex(m) == (m.currentTrackIndex + 1) % Len(m.availableTracks)

\* playNextTrack() on the manager m, up to the await of the play() it calls.
playNextTrack(m, allowed) ==
    IF Len(m.availableTracks) = 0 THEN m
    ELSE LET loaded == loadCurrentTrack([m EXCEPT !.currentTrackIndex = NextTrackIndex(m)])
         IN  IF loaded.enabled THEN play(loaded, allowed) ELSE loaded

\* pause() on the manager m.
pause(m) ==
    IF m.audio.exists /\ ~m.audio.paused THEN [m EXCEPT !.audio.paused = TRUE] ELSE m

\* setEnabled(enabled) on the manager m.
setEnabled(m, enabled, allowed) ==
    LET set == [m EXCEPT !.enabled = enabled] IN
    IF enabled THEN play(set, allowed) ELSE pause(set)

\* The manager holds no more than MaxPlays unsettled calls of play().
WithinPlays(m) == m.audio.pending <= MaxPlays

\* initializeAudio() from its await on: the tracks detected, then the audio
\* element, its first track and its listeners; new Audio() may throw.
initializeAudio ==
    /\ backgroundMusicManager.pc = "detectAvailableTracks"
    /\ \E tracks \in detectAvailableTracks, constructed \in BOOLEAN :
         LET m == [backgroundMusicManager EXCEPT !.availableTracks = tracks,
                                                 !.pc = "done"]
         IN  backgroundMusicManager' =
                IF Len(tracks) = 0 \/ ~constructed THEN m
                ELSE [loadCurrentTrack([m EXCEPT !.audio = NewAudio])
                        EXCEPT !.isInitialized = TRUE]
    /\ UNCHANGED storage

\* A caller's play().
playCall ==
    /\ \E allowed \in BOOLEAN :
         /\ WithinPlays(play(backgroundMusicManager, allowed))
         /\ backgroundMusicManager' = play(backgroundMusicManager, allowed)
    /\ UNCHANGED storage

\* A caller's pause().
pauseCall ==
    /\ backgroundMusicManager' = pause(backgroundMusicManager)
    /\ UNCHANGED storage

\* A caller's setEnabled(enabled).
setEnabledCall(enabled) ==
    /\ \E allowed \in BOOLEAN :
         /\ WithinPlays(setEnabled(backgroundMusicManager, enabled, allowed))
         /\ backgroundMusicManager' = setEnabled(backgroundMusicManager, enabled, allowed)
    /\ UNCHANGED storage

\* The listener of 'ended': the track playing reached its end.
ended ==
    /\ backgroundMusicManager.isInitialized
    /\ ~backgroundMusicManager.audio.paused
    /\ \E allowed \in BOOLEAN :
         /\ WithinPlays(playNextTrack(backgroundMusicManager, allowed))
         /\ backgroundMusicManager' = playNextTrack(backgroundMusicManager, allowed)
    /\ UNCHANGED storage

\* The listener of 'error': the element could not load or decode its src.
error ==
    /\ backgroundMusicManager.isInitialized
    /\ \E allowed \in BOOLEAN :
         /\ WithinPlays(playNextTrack(backgroundMusicManager, allowed))
         /\ backgroundMusicManager' = playNextTrack(backgroundMusicManager, allowed)
    /\ UNCHANGED storage

\* play() after its await, audio.play() fulfilled: it returns.
playFulfilled ==
    /\ backgroundMusicManager.audio.pending > 0
    /\ ~backgroundMusicManager.audio.paused
    /\ backgroundMusicManager' =
          [backgroundMusicManager EXCEPT !.audio.pending = @ - 1]
    /\ UNCHANGED storage

\* play() after its await, audio.play() rejected: its catch calls
\* playNextTrack().
playRejected ==
    /\ backgroundMusicManager.audio.pending > 0
    /\ \E allowed \in BOOLEAN :
         LET caught == [backgroundMusicManager EXCEPT !.audio.pending = @ - 1] IN
         /\ WithinPlays(playNextTrack(caught, allowed))
         /\ backgroundMusicManager' = playNextTrack(caught, allowed)
    /\ UNCHANGED storage

\* ------------------------------------------------------------------- Init

Init ==
    /\ isConnected = FALSE
    /\ users = {} /\ deposits = {} /\ withdrawals = {}
    /\ games = {} /\ jackpots = {} /\ cats = {}
    /\ now = 0
    /\ oids = 0
    /\ calls = [p \in Proc |-> Idle]
    /\ last = Returned("none", <<>>, FALSE, FALSE, RVoid, NullOid, <<>>)
    /\ backgroundMusicManager = NewBackgroundMusicManager

\* A call that returns in the step it is made in.
Return(op, args, failed, result, oid) ==
    last' = Returned(op, args, isConnected, failed, result, oid, <<>>)

\* A call in flight returns; local is what it held.
FinishWith(p, failed, result, oid, local) ==
    /\ calls' = [calls EXCEPT ![p] = Idle]
    /\ last' = Returned(calls[p].op, calls[p].args, calls[p].connected, failed,
                        result, oid, local)

Finish(p, failed, result, oid) == FinishWith(p, failed, result, oid, calls[p])

\* Room for one more document.
CanSave == oids < MaxOids
\* Room for one more stamped update: the clock ticks once for every document
\* saved and once for every such update.
CanUpdate == now - oids < MaxUpdates

\* ------------------------------------------------------------------- init

NewJackpot(oid, t) ==
    [_id |-> oid, amount |-> Str(10000000, 8), lastWinnerId |-> NullOid,
     lastWonAt |-> NoTime, updatedAt |-> t]

AdminUser(oid, t) ==
    [_id |-> oid, username |-> "admin", password |-> bcryptHash(Plain("admin1234"), 10),
     balance |-> Str(1000000, 2), meowBalance |-> Str(100000000, 8),
     isAdmin |-> TRUE, isBanned |-> FALSE, createdAt |-> t]

\* init(), to the end of connectToMongoDB(): it resolves to true or false,
\* or throws.
initCall(p) ==
    /\ AllIdle /\ Free(p)
    /\ oids + (IF jackpots = {} THEN 1 ELSE 0)
            + (IF \E u \in users : u.username = "admin" THEN 0 ELSE 1) <= MaxOids
    /\ \E outcome \in {"true", "false", "throw"} :
         /\ isConnected' = (outcome = "true")
         /\ IF outcome = "true"
            THEN /\ calls' = [calls EXCEPT ![p] =
                        [op |-> "init", pc |-> "findJackpot", args |-> <<>>,
                         connected |-> isConnected]]
                 /\ UNCHANGED last
            ELSE /\ last' = Returned("init", <<>>, isConnected, outcome = "throw",
                                     RVoid, NullOid, <<>>)
                 /\ UNCHANGED calls
    /\ UNCHANGED <<backgroundMusicManager, store, now, oids>>

\* initializeDefaultData(), one store operation at a time; its catch ends
\* it on the first that fails.
initStep(p, fail) ==
    LET c == calls[p] IN
    CASE c.pc = "findJackpot" ->
           /\ IF fail THEN Finish(p, TRUE, RVoid, NullOid)
              ELSE /\ calls' = [calls EXCEPT ![p].pc =
                          IF jackpots = {} THEN "saveJackpot" ELSE "findAdmin"]
                   /\ UNCHANGED last
           /\ UNCHANGED <<backgroundMusicManager, isConnected, store, now, oids>>
      [] c.pc = "saveJackpot" ->
           /\ IF fail
              THEN /\ Finish(p, TRUE, RVoid, NullOid)
                   /\ UNCHANGED <<jackpots, oids, now>>
              ELSE /\ oids' = oids + 1 /\ now' = now + 1
                   /\ jackpots' = jackpots \cup {NewJackpot(GeneratedObjectId(oids), now)}
                   /\ calls' = [calls EXCEPT ![p].pc = "findAdmin"]
                   /\ UNCHANGED last
           /\ UNCHANGED <<backgroundMusicManager, isConnected, users, deposits, withdrawals, games, cats>>
      [] c.pc = "findAdmin" ->
           /\ IF fail THEN Finish(p, TRUE, RVoid, NullOid)
              ELSE IF \E u \in users : u.username = "admin"
              THEN Finish(p, FALSE, RVoid, NullOid)
              ELSE /\ calls' = [calls EXCEPT ![p].pc = "saveAdmin"]
                   /\ UNCHANGED last
           /\ UNCHANGED <<backgroundMusicManager, isConnected, store, now, oids>>
      [] c.pc = "saveAdmin" ->
           /\ IF fail
              THEN /\ Finish(p, TRUE, RVoid, NullOid)
                   /\ UNCHANGED <<users, oids, now>>
              ELSE /\ oids' = oids + 1 /\ now' = now + 1
                   /\ users' = users \cup {AdminUser(GeneratedObjectId(oids), now)}
                   /\ Finish(p, FALSE, RVoid, GeneratedObjectId(oids))
           /\ UNCHANGED <<backgroundMusicManager, isConnected, deposits, withdrawals, games, jackpots, cats>>

\* ------------------------------------------------------------------ users

getUser(id) ==
    /\ \E fail \in Outcomes :
         Return("getUser", [id |-> id], fail,
                IF ~isConnected \/ fail \/ ById(users, ObjectIdOfNumber(id)) = {}
                THEN RUndefined
                ELSE RDoc(convertMongoUser(
                         CHOOSE u \in ById(users, ObjectIdOfNumber(id)) : TRUE)),
                NullOid)
    /\ UNCHANGED <<backgroundMusicManager, isConnected, store, now, oids, calls>>

getUserByUsername(username) ==
    /\ \E fail \in Outcomes :
         \E found \in IF ~isConnected \/ fail
                      THEN {RUndefined}
                      ELSE IF \E u \in users : u.username = username
                      THEN {RDoc(convertMongoUser(u)) : u \in {x \in users : x.username = username}}
                      ELSE {RUndefined} :
           Return("getUserByUsername", [username |-> username], fail, found, NullOid)
    /\ UNCHANGED <<backgroundMusicManager, isConnected, store, now, oids, calls>>

\* A user document built from the input as it came: the password as
\* supplied, the flags the input carries.
NewUserFromInput(insertUser, oid, t) ==
    [_id |-> oid, username |-> insertUser.username,
     password |-> insertUser.password,
     balance |-> Str(100000, 2), meowBalance |-> Str(0, 8),
     isAdmin |-> insertUser.isAdmin, isBanned |-> insertUser.isBanned,
     createdAt |-> t]

\* The document createUser saves.
NewUser(insertUser, oid, t) ==
    [_id |-> oid, username |-> insertUser.username,
     password |-> bcryptHash(insertUser.password, 10),
     balance |-> Str(100000, 2), meowBalance |-> Str(0, 8),
     isAdmin |-> FALSE, isBanned |-> FALSE, createdAt |-> t]

createUser(insertUser) ==
    IF ~isConnected
    THEN /\ Return("createUser", insertUser, FALSE, RThrow, NullOid)
         /\ UNCHANGED <<backgroundMusicManager, isConnected, store, now, oids, calls>>
    ELSE /\ CanSave
         /\ \E fail \in Outcomes :
              LET user == NewUser(insertUser, GeneratedObjectId(oids), now) IN
              IF fail
              THEN /\ Return("createUser", insertUser, TRUE, RThrow, NullOid)
                   /\ UNCHANGED <<users, oids, now>>
              ELSE /\ users' = users \cup {user}
                   /\ oids' = oids + 1 /\ now' = now + 1
                   /\ Return("createUser", insertUser, FALSE,
                             RDoc(convertMongoUser(user)), user._id)
         /\ UNCHANGED <<backgroundMusicManager, isConnected, deposits, withdrawals, games, jackpots, cats,
                        calls>>

\* User.findOneAndUpdate({ _id }, update): the collection afterwards.
UpdateById(S, oid, upd) == {IF d._id = oid THEN upd[d] ELSE d : d \in S}

\* updateUserBalance's effect on the User collection.
SetBalance(userId, balance, meowBalance) ==
    LET upd == [u \in users |-> [u EXCEPT !.balance = balance,
                            !.meowBalance = IF meowBalance = Undefined THEN @
                                            ELSE meowBalance]]
    IN  UpdateById(users, ObjectIdOfNumber(userId), upd)

updateUserBalance(userId, balance, meowBalance) ==
    /\ \E fail \in Outcomes :
         /\ users' = IF ~isConnected \/ fail THEN users
                     ELSE SetBalance(userId, balance, meowBalance)
         /\ Return("updateUserBalance",
                   [userId |-> userId, balance |-> balance, meowBalance |-> meowBalance],
                   fail, RVoid, NullOid)
    /\ UNCHANGED <<backgroundMusicManager, isConnected, deposits, withdrawals, games, jackpots, cats,
                   now, oids, calls>>

getAllUsers ==
    /\ \E fail \in Outcomes :
         Return("getAllUsers", <<>>, fail,
                IF ~isConnected \/ fail THEN RList(<<>>)
                ELSE RList(Map(convertMongoUser, SortNewestFirst(users))), NullOid)
    /\ UNCHANGED <<backgroundMusicManager, isConnected, store, now, oids, calls>>

\* banUser's effect on the User collection.
SetBanned(userId, banned) ==
    LET upd == [u \in users |-> [u EXCEPT !.isBanned = banned]]
    IN  UpdateById(users, ObjectIdOfNumber(userId), upd)

banUser(userId, banned) ==
    /\ \E fail \in Outcomes :
         /\ users' = IF ~isConnected \/ fail THEN users ELSE SetBanned(userId, banned)
         /\ Return("banUser", [userId |-> userId, banned |-> banned], fail, RVoid, NullOid)
    /\ UNCHANGED <<backgroundMusicManager, isConnected, deposits, withdrawals, games, jackpots, cats,
                   now, oids, calls>>

\* --------------------------------------------------------------- deposits

\* The document createDeposit saves.
NewDeposit(deposit, oid, t) ==
    [_id |-> oid, userId |-> ObjectIdOfNumber(deposit.userId),
     amount |-> deposit.amount, receiptUrl |-> OrElse(deposit.receiptUrl, NullStr),
     status |-> "pending", createdAt |-> t]

createDeposit(deposit) ==
    IF ~isConnected
    THEN /\ Return("createDeposit", deposit, FALSE, RThrow, NullOid)
         /\ UNCHANGED <<backgroundMusicManager, isConnected, store, now, oids, calls>>
    ELSE /\ CanSave
         /\ \E fail \in Outcomes :
              LET d == NewDeposit(deposit, GeneratedObjectId(oids), now) IN
              IF fail
              THEN /\ Return("createDeposit", deposit, TRUE, RThrow, NullOid)
                   /\ UNCHANGED <<deposits, oids, now>>
              ELSE /\ deposits' = deposits \cup {d}
                   /\ oids' = oids + 1 /\ now' = now + 1
                   /\ Return("createDeposit", deposit, FALSE,
                             RDoc(convertMongoDeposit(d)), d._id)
         /\ UNCHANGED <<backgroundMusicManager, isConnected, users, withdrawals, games, jackpots, cats,
                        calls>>

\* getDeposits with a catch that rethrows, as the create methods do.
getDepositsRethrows ==
    /\ \E fail \in Outcomes :
         Return("getDeposits", <<>>, fail,
                IF ~isConnected THEN RList(<<>>)
                ELSE IF fail THEN RThrow
                ELSE RList(Map(convertMongoDeposit, SortNewestFirst(deposits))), NullOid)
    /\ UNCHANGED <<backgroundMusicManager, isConnected, store, now, oids, calls>>

getDeposits ==
    /\ \E fail \in Outcomes :
         Return("getDeposits", <<>>, fail,
                IF ~isConnected \/ fail THEN RList(<<>>)
                ELSE RList(Map(convertMongoDeposit, SortNewestFirst(deposits))), NullOid)
    /\ UNCHANGED <<backgroundMusicManager, isConnected, store, now, oids, calls>>

\* Deposit.findOneAndUpdate({ _id }, { status }): the collection afterwards.
SetDepositStatus(id, status) ==
    LET upd == [d \in deposits |-> [d EXCEPT !.status = status]]
    IN  UpdateById(deposits, ObjectIdOfNumber(id), upd)

\* updateDepositStatus, to the end of Deposit.findOneAndUpdate: it resolves
\* to the document as it was before the update, or to none.
updateDepositStatusCall(p, id, status) ==
    /\ Free(p) /\ NoInit
    /\ \E fail \in Outcomes :
         LET args == [id |-> id, status |-> status]
             found == ById(deposits, ObjectIdOfNumber(id))
             \* what the call met: the users, and whether the call that
             \* returned before it was the same call
             met == [before |-> users,
                     repeated |-> last.op = "updateDepositStatus" /\ last.args = args]
         IN  IF ~isConnected \/ fail
             THEN /\ last' = Returned("updateDepositStatus", args, isConnected, fail,
                                      RVoid, NullOid, met)
                  /\ UNCHANGED <<deposits, calls>>
             ELSE /\ deposits' = SetDepositStatus(id, status)
                  /\ IF status = "approved" /\ found # {}
                     THEN /\ calls' = [calls EXCEPT ![p] =
                                 [op |-> "updateDepositStatus", pc |-> "findUser",
                                  args |-> args, connected |-> isConnected,
                                  deposit |-> CHOOSE d \in found : TRUE,
                                  newBalance |-> Undefined,
                                  before |-> met.before, repeated |-> met.repeated]]
                          /\ UNCHANGED last
                     ELSE /\ last' = Returned("updateDepositStatus", args, isConnected,
                                              FALSE, RVoid, NullOid, met)
                          /\ UNCHANGED calls
    /\ UNCHANGED <<backgroundMusicManager, isConnected, users, withdrawals, games, jackpots, cats,
                   now, oids>>

\* The balance updateDepositStatus credits: the owner's plus the deposit's
\* amount, to 2 decimals.
CreditedBalance(user, deposit) ==
    toFixed(Plus(parseFloat(user.balance), parseFloat(deposit.amount)), 2)

\* updateDepositStatus after the deposit was found and approved:
\* User.findById, then updateUserBalance (which catches its own errors).
updateDepositStatusStep(p, fail) ==
    LET c == calls[p] IN
    CASE c.pc = "findUser" ->
           /\ IF fail THEN Finish(p, TRUE, RVoid, NullOid)
              ELSE IF ById(users, c.deposit.userId) = {}
              THEN Finish(p, FALSE, RVoid, NullOid)
              ELSE /\ calls' = [calls EXCEPT
                          ![p].pc = "updateUserBalance",
                          ![p].newBalance = CreditedBalance(
                              CHOOSE u \in ById(users, c.deposit.userId) : TRUE,
                              c.deposit)]
                   /\ UNCHANGED last
           /\ UNCHANGED <<backgroundMusicManager, isConnected, store, now, oids>>
      [] c.pc = "updateUserBalance" ->
           /\ users' = IF ~isConnected \/ fail THEN users
                       ELSE SetBalance(NumericRef(c.deposit.userId), c.newBalance, Undefined)
           /\ Finish(p, fail, RVoid, NullOid)
           /\ UNCHANGED <<backgroundMusicManager, isConnected, deposits, withdrawals, games, jackpots, cats,
                          now, oids>>

\* ------------------------------------------------------------ withdrawals

\* The document createWithdrawal saves.
NewWithdrawal(withdrawal, oid, t) ==
    [_id |-> oid, userId |-> ObjectIdOfNumber(withdrawal.userId),
     amount |-> withdrawal.amount, platform |-> withdrawal.platform,
     accountInfo |-> withdrawal.accountInfo, status |-> "pending", createdAt |-> t]

createWithdrawal(withdrawal) ==
    IF ~isConnected
    THEN /\ Return("createWithdrawal", withdrawal, FALSE, RThrow, NullOid)
         /\ UNCHANGED <<backgroundMusicManager, isConnected, store, now, oids, calls>>
    ELSE /\ CanSave
         /\ \E fail \in Outcomes :
              LET w == NewWithdrawal(withdrawal, GeneratedObjectId(oids), now) IN
              IF fail
              THEN /\ Return("createWithdrawal", withdrawal, TRUE, RThrow, NullOid)
                   /\ UNCHANGED <<withdrawals, oids, now>>
              ELSE /\ withdrawals' = withdrawals \cup {w}
                   /\ oids' = oids + 1 /\ now' = now + 1
                   /\ Return("createWithdrawal", withdrawal, FALSE,
                             RDoc(convertMongoWithdrawal(w)), w._id)
         /\ UNCHANGED <<backgroundMusicManager, isConnected, users, deposits, games, jackpots, cats,
                        calls>>

getWithdrawal(id) ==
    /\ \E fail \in Outcomes :
         Return("getWithdrawal", [id |-> id], fail,
                IF ~isConnected \/ fail \/ ById(withdrawals, ObjectIdOfNumber(id)) = {}
                THEN RUndefined
                ELSE RDoc(convertMongoWithdrawal(
                         CHOOSE w \in ById(withdrawals, ObjectIdOfNumber(id)) : TRUE)),
                NullOid)
    /\ UNCHANGED <<backgroundMusicManager, isConnected, store, now, oids, calls>>

getWithdrawals ==
    /\ \E fail \in Outcomes :
         Return("getWithdrawals", <<>>, fail,
                IF ~isConnected \/ fail THEN RList(<<>>)
                ELSE RList(Map(convertMongoWithdrawal, SortNewestFirst(withdrawals))),
                NullOid)
    /\ UNCHANGED <<backgroundMusicManager, isConnected, store, now, oids, calls>>

getUserWithdrawals(userId) ==
    /\ \E fail \in Outcomes :
         Return("getUserWithdrawals", [userId |-> userId], fail,
                IF ~isConnected \/ fail THEN RList(<<>>)
                ELSE RList(Map(convertMongoWithdrawal, SortNewestFirst(
                         {w \in withdrawals : w.userId = ObjectIdOfNumber(userId)}))),
                NullOid)
    /\ UNCHANGED <<backgroundMusicManager, isConnected, store, now, oids, calls>>

\* Withdrawal.findOneAndUpdate({ _id }, { status }): the collection afterwards.
SetWithdrawalStatus(id, status) ==
    LET upd == [w \in withdrawals |-> [w EXCEPT !.status = status]]
    IN  UpdateById(withdrawals, ObjectIdOfNumber(id), upd)

updateWithdrawalStatus(id, status) ==
    /\ \E fail \in Outcomes :
         /\ withdrawals' = IF ~isConnected \/ fail THEN withdrawals
                           ELSE SetWithdrawalStatus(id, status)
         /\ Return("updateWithdrawalStatus", [id |-> id, status |-> status], fail,
                   RVoid, NullOid)
    /\ UNCHANGED <<backgroundMusicManager, isConnected, users, deposits, games, jackpots, cats,
                   now, oids, calls>>

\* ---------------------------------------------------- game history, jackpot

\* The document createGameHistory saves.
NewGame(game, oid, t) ==
    [_id |-> oid, userId |-> ObjectIdOfNumber(game.userId),
     gameType |-> game.gameType, betAmount |-> game.betAmount,
     winAmount |-> OrElse(game.winAmount, Str(0, 2)),
     meowWon |-> OrElse(game.meowWon, Str(0, 8)),
     result |-> OrElse(game.result, NullStr), createdAt |-> t]

\* A round is taken for a loss whatever it won.
IsLossAlways(game) == TRUE

\* parseFloat(game.winAmount || "0") === 0
IsLoss(game) == parseFloat(OrElse(game.winAmount, Str(0, 0))) = Zero

\* The whole bet is added, not 1% of it.
AccruedWholeBet(amount, betAmount) ==
    toFixed(Plus(parseFloat(amount), parseFloat(betAmount)), 8)

\* (currentJackpot + betAmount * 0.01).toFixed(8)
AccruedAmount(amount, betAmount) ==
    toFixed(Plus(parseFloat(amount), TimesOneHundredth(parseFloat(betAmount))), 8)

\* A save that adds the increase to what the store holds at that moment,
\* as an atomic increment would.
SavedJackpotIncrement(stored, c) ==
    [stored EXCEPT !.amount = AccruedAmount(stored.amount, c.args.betAmount),
                   !.updatedAt = c.jackpot.updatedAt]

\* jackpot.save() of the document createGameHistory read and changed: the
\* stored document of that _id gets the changed paths.
SavedJackpot(stored, c) ==
    [stored EXCEPT !.amount = c.jackpot.amount, !.updatedAt = c.jackpot.updatedAt]

\* createGameHistory, to the end of newGame.save().
createGameHistoryCall(p, game) ==
    /\ Free(p) /\ NoInit
    /\ IF ~isConnected
       THEN /\ Return("createGameHistory", game, FALSE, RThrow, NullOid)
            /\ UNCHANGED <<games, now, oids, calls>>
       ELSE /\ CanSave /\ (IsLoss(game) /\ jackpots # {} => CanUpdate)
            /\ \E fail \in Outcomes :
                 LET g == NewGame(game, GeneratedObjectId(oids), now) IN
                 IF fail
                 THEN /\ Return("createGameHistory", game, TRUE, RThrow, NullOid)
                      /\ UNCHANGED <<games, calls, oids, now>>
                 ELSE /\ games' = games \cup {g}
                      /\ oids' = oids + 1 /\ now' = now + 1
                      /\ IF IsLoss(game)
                         THEN /\ calls' = [calls EXCEPT ![p] =
                                     [op |-> "createGameHistory", pc |-> "findJackpot",
                                      args |-> game, connected |-> isConnected,
                                      savedGame |-> g, before |-> jackpots,
                                      read |-> NullOid, jackpot |-> NullOid,
                                      overwrote |-> NullOid]]
                              /\ UNCHANGED last
                         ELSE /\ last' = Returned("createGameHistory", game, isConnected,
                                     FALSE, RDoc(convertMongoGameHistory(g)), g._id,
                                     [pc |-> "saveGame", before |-> jackpots])
                              /\ UNCHANGED calls
    /\ UNCHANGED <<backgroundMusicManager, isConnected, users, deposits, withdrawals, jackpots, cats>>

\* createGameHistory on a loss: Jackpot.findOne(), the new amount and time
\* set on the document read, then jackpot.save().
createGameHistoryStep(p, fail) ==
    LET c == calls[p] IN
    CASE c.pc = "findJackpot" ->
           /\ IF fail THEN Finish(p, TRUE, RThrow, c.savedGame._id)
              ELSE IF jackpots = {}
              THEN Finish(p, FALSE, RDoc(convertMongoGameHistory(c.savedGame)),
                          c.savedGame._id)
              ELSE /\ \E j \in jackpots :
                        calls' = [calls EXCEPT
                            ![p].pc = "saveJackpot",
                            ![p].read = j,
                            ![p].jackpot = [j EXCEPT
                                !.amount = AccruedAmount(j.amount, c.args.betAmount),
                                !.updatedAt = now]]
                   /\ UNCHANGED last
           /\ UNCHANGED <<backgroundMusicManager, isConnected, store, now, oids>>
      [] c.pc = "saveJackpot" ->
           /\ IF fail
              THEN /\ Finish(p, TRUE, RThrow, c.savedGame._id)
                   /\ UNCHANGED <<jackpots, now>>
              ELSE /\ jackpots' = {IF d._id = c.jackpot._id THEN SavedJackpot(d, c) ELSE d
                                   : d \in jackpots}
                   /\ now' = now + 1
                   /\ FinishWith(p, FALSE, RDoc(convertMongoGameHistory(c.savedGame)),
                                 c.savedGame._id,
                                 [c EXCEPT !.overwrote =
                                     CHOOSE d \in jackpots : d._id = c.jackpot._id])
           /\ UNCHANGED <<backgroundMusicManager, isConnected, users, deposits, withdrawals, games, cats, oids>>

getGameHistory(userId) ==
    /\ \E fail \in Outcomes :
         Return("getGameHistory", [userId |-> userId], fail,
                IF ~isConnected \/ fail THEN RList(<<>>)
                ELSE RList(Map(convertMongoGameHistory, SortNewestFirst(
                         IF userId # 0
                         THEN {g \in games : g.userId = ObjectIdOfNumber(userId)}
                         ELSE games))),
                NullOid)
    /\ UNCHANGED <<backgroundMusicManager, isConnected, store, now, oids, calls>>

\* getJackpot, to the end of Jackpot.findOne().
getJackpotCall(p) ==
    /\ Free(p) /\ NoInit
    /\ \E fail \in Outcomes :
         IF ~isConnected \/ fail
         THEN /\ Return("getJackpot", <<>>, fail, RDoc(DefaultJackpot), NullOid)
              /\ UNCHANGED calls
         ELSE IF jackpots # {}
         THEN /\ \E j \in jackpots :
                   Return("getJackpot", <<>>, FALSE, RDoc(convertJackpot(j)), NullOid)
              /\ UNCHANGED calls
         ELSE /\ CanSave
              /\ calls' = [calls EXCEPT ![p] =
                     [op |-> "getJackpot", pc |-> "save", args |-> <<>>,
                      connected |-> isConnected,
                      jackpot |-> NewJackpot(NullOid, now)]]
              /\ UNCHANGED last
    /\ UNCHANGED <<backgroundMusicManager, isConnected, store, now, oids>>

\* getJackpot when it found no document: jackpot.save() of a new one.
getJackpotStep(p, fail) ==
    LET c == calls[p] IN
    /\ IF fail
       THEN /\ Finish(p, TRUE, RDoc(DefaultJackpot), NullOid)
            /\ UNCHANGED <<jackpots, now, oids>>
       ELSE /\ jackpots' = jackpots \cup {[c.jackpot EXCEPT !._id = GeneratedObjectId(oids)]}
            /\ oids' = oids + 1
            /\ now' = now + 1
            /\ Finish(p, FALSE, RDoc(convertJackpot(c.jackpot)), GeneratedObjectId(oids))
    /\ UNCHANGED <<backgroundMusicManager, isConnected, users, deposits, withdrawals, games, cats>>

\* updateData of updateJackpot applied to a document.
JackpotUpdate(j, amount, winnerId, t) ==
    [j EXCEPT !.amount = amount, !.updatedAt = t,
              !.lastWinnerId = IF winnerId # 0 THEN ObjectIdOfNumber(winnerId) ELSE @,
              !.lastWonAt = IF winnerId # 0 THEN t ELSE @]

\* Jackpot.findOneAndUpdate({}, updateData, { upsert: true })
updateJackpot(amount, winnerId) ==
    LET args == [amount |-> amount, winnerId |-> winnerId] IN
    IF ~isConnected
    THEN /\ Return("updateJackpot", args, FALSE, RVoid, NullOid)
         /\ UNCHANGED <<backgroundMusicManager, isConnected, store, now, oids, calls>>
    ELSE /\ NoInit
         /\ IF jackpots = {} THEN CanSave ELSE CanUpdate
         /\ \E fail \in Outcomes :
              IF fail
              THEN /\ Return("updateJackpot", args, TRUE, RVoid, NullOid)
                   /\ UNCHANGED <<jackpots, oids, now>>
              ELSE IF jackpots = {}
              THEN /\ jackpots' = {JackpotUpdate(
                          [_id |-> GeneratedObjectId(oids), amount |-> Undefined,
                           lastWinnerId |-> NullOid, lastWonAt |-> NoTime,
                           updatedAt |-> NoTime], amount, winnerId, now)}
                   /\ oids' = oids + 1 /\ now' = now + 1
                   /\ Return("updateJackpot", args, FALSE, RVoid, GeneratedObjectId(oids))
              ELSE /\ \E j \in jackpots :
                        /\ jackpots' = (jackpots \ {j})
                                         \cup {JackpotUpdate(j, amount, winnerId, now)}
                   /\ oids' = oids /\ now' = now + 1
                   /\ Return("updateJackpot", args, FALSE, RVoid, NullOid)
         /\ UNCHANGED <<backgroundMusicManager, isConnected, users, deposits, withdrawals, games, cats, calls>>

\* -------------------------------------------------------------- farm cats

\* The document createFarmCat saves.
NewFarmCat(data, oid, t) ==
    [_id |-> oid, userId |-> ObjectIdOfNumber(data.userId), catId |-> data.catId,
     production |-> data.production, level |-> 1, lastClaimed |-> t, createdAt |-> t]

\* A find that leaves the owner out of its filter.
CatsOfAnyone(userId) == cats

\* FarmCat.find({ userId })
CatsOf(userId) == {cat \in cats : cat.userId = ObjectIdOfNumber(userId)}

getFarmData(userId) ==
    /\ \E fail \in Outcomes :
         Return("getFarmData", [userId |-> userId], fail,
                IF ~isConnected \/ fail THEN RDoc(DefaultFarmData)
                ELSE RDoc([cats |-> Map(convertFarmCat, SeqOf(CatsOf(userId))),
                           totalProduction |-> SumProduction(SeqOf(CatsOf(userId))),
                           unclaimedMeow |-> Str(0, 8)]),
                NullOid)
    /\ UNCHANGED <<backgroundMusicManager, isConnected, store, now, oids, calls>>

\* createFarmCat without its isConnected check.
createFarmCatUnguarded(data) ==
    /\ CanSave
    /\ \E fail \in BOOLEAN :
         LET cat == NewFarmCat(data, GeneratedObjectId(oids), now) IN
         IF fail
         THEN /\ Return("createFarmCat", data, TRUE, RNull, NullOid)
              /\ UNCHANGED <<cats, oids, now>>
         ELSE /\ cats' = cats \cup {cat}
              /\ oids' = oids + 1 /\ now' = now + 1
              /\ Return("createFarmCat", data, FALSE,
                        RDoc([convertFarmCat(cat) EXCEPT !.userId = data.userId]),
                        cat._id)
    /\ UNCHANGED <<backgroundMusicManager, isConnected, users, deposits, withdrawals, games, jackpots,
                   calls>>

createFarmCat(data) ==
    IF ~isConnected
    THEN /\ Return("createFarmCat", data, FALSE, RNull, NullOid)
         /\ UNCHANGED <<backgroundMusicManager, isConnected, store, now, oids, calls>>
    ELSE /\ CanSave
         /\ \E fail \in Outcomes :
              LET cat == NewFarmCat(data, GeneratedObjectId(oids), now) IN
              IF fail
              THEN /\ Return("createFarmCat", data, TRUE, RNull, NullOid)
                   /\ UNCHANGED <<cats, oids, now>>
              ELSE /\ cats' = cats \cup {cat}
                   /\ oids' = oids + 1 /\ now' = now + 1
                   /\ Return("createFarmCat", data, FALSE,
                             RDoc([convertFarmCat(cat) EXCEPT !.userId = data.userId]),
                             cat._id)
         /\ UNCHANGED <<backgroundMusicManager, isConnected, users, deposits, withdrawals, games, jackpots,
                        calls>>

getFarmCat(id) ==
    /\ \E fail \in Outcomes :
         Return("getFarmCat", [id |-> id], fail,
                IF ~isConnected \/ fail \/ ById(cats, ObjectIdOfNumber(id)) = {}
                THEN RNull
                ELSE RDoc(convertFarmCat(
                         CHOOSE cat \in ById(cats, ObjectIdOfNumber(id)) : TRUE)),
                NullOid)
    /\ UNCHANGED <<backgroundMusicManager, isConnected, store, now, oids, calls>>

\* FarmCat.findOneAndUpdate({ _id }, { level, production })
SetCatLevel(id, level, production) ==
    LET upd == [cat \in cats |-> [cat EXCEPT !.level = level, !.production = production]]
    IN  UpdateById(cats, ObjectIdOfNumber(id), upd)

upgradeFarmCat(id, level, production) ==
    /\ \E fail \in Outcomes :
         /\ cats' = IF ~isConnected \/ fail THEN cats
                    ELSE SetCatLevel(id, level, production)
         /\ Return("upgradeFarmCat",
                   [id |-> id, level |-> level, production |-> production], fail,
                   RVoid, NullOid)
    /\ UNCHANGED <<backgroundMusicManager, isConnected, users, deposits, withdrawals, games, jackpots,
                   now, oids, calls>>

\* An updateMany that leaves the owner out of its filter.
StampEveryCat(userId, t) == {[cat EXCEPT !.lastClaimed = t] : cat \in cats}

\* FarmCat.updateMany({ userId }, { lastClaimed: new Date() })
StampClaimed(userId, t) ==
    {IF cat.userId = ObjectIdOfNumber(userId) THEN [cat EXCEPT !.lastClaimed = t]
     ELSE cat : cat \in cats}

claimFarmRewards(userId) ==
    IF ~isConnected
    THEN /\ Return("claimFarmRewards", [userId |-> userId], FALSE, RVoid, NullOid)
         /\ UNCHANGED <<backgroundMusicManager, isConnected, store, now, oids, calls>>
    ELSE /\ CanUpdate
         /\ \E fail \in Outcomes :
              /\ cats' = IF fail THEN cats ELSE StampClaimed(userId, now)
              /\ now' = IF fail THEN now ELSE now + 1
              /\ Return("claimFarmRewards", [userId |-> userId], fail, RVoid, NullOid)
         /\ UNCHANGED <<backgroundMusicManager, isConnected, users, deposits, withdrawals, games, jackpots,
                        oids, calls>>

\* ------------------------------------------------------------------- Next

Statuses == {"approved", "rejected", "cancelled"}

\* The bets of the betting panel that the model plays.
Bets == {Str(25, 2), Str(100, 2)}
\* winAmount of a round: missing, "0.00", or a win.
Wins == {Undefined, Str(0, 2), Str(50, 2)}

Games ==
    [userId : {1}, gameType : {"mines"}, betAmount : Bets,
     winAmount : Wins, meowWon : {Undefined}, result : {Undefined}]

DepositInputs == [userId : IdsOf(users), amount : {Str(5000, 2)}, receiptUrl : {Undefined}]

WithdrawalInputs ==
    [userId : IdsOf(users), amount : {Str(2000, 2)}, platform : {"gcash"},
     accountInfo : {"0917"}]

CatInputs == [userId : IdsOf(users), catId : {"basic"}, production : {1, 2}]

\* The inputs a specification draws from a set: every one, or one of them.
Pick(every, S) == IF every THEN S ELSE {CHOOSE x \in S : TRUE}

\* The calls on users, one request at a time: a call is made when the one
\* before has returned.
UserCalls(every) ==
    \/ \E id \in Pick(every, IdsOf(users)) : AllIdle /\ getUser(id)
    \/ \E n \in Pick(every, {u.username : u \in users} \cup {"nobody"}) :
         AllIdle /\ getUserByUsername(n)
    \/ \E u \in Pick(every, InsertUsers) : AllIdle /\ createUser(u)
    \/ \E id \in Pick(every, IdsOf(users)) :
         AllIdle /\ updateUserBalance(id, Str(90000, 2), Str(50000000, 8))
    \/ AllIdle /\ getAllUsers
    \/ \E id \in Pick(every, IdsOf(users)), b \in Pick(every, {TRUE, FALSE}) :
         AllIdle /\ banUser(id, b)

\* The calls on deposits and withdrawals, one request at a time.
MoneyCalls(p, every) ==
    \/ \E d \in Pick(every, DepositInputs) : AllIdle /\ createDeposit(d)
    \/ AllIdle /\ getDeposits
    \/ \E id \in Pick(every, IdsOf(deposits)), st \in Pick(every, Statuses) :
         AllIdle /\ updateDepositStatusCall(p, id, st)
    \/ \E w \in Pick(every, WithdrawalInputs) : AllIdle /\ createWithdrawal(w)
    \/ \E id \in Pick(every, IdsOf(withdrawals)) : AllIdle /\ getWithdrawal(id)
    \/ AllIdle /\ getWithdrawals
    \/ \E id \in Pick(every, IdsOf(users)) : AllIdle /\ getUserWithdrawals(id)
    \/ \E id \in Pick(every, IdsOf(withdrawals)), st \in Pick(every, Statuses) :
         AllIdle /\ updateWithdrawalStatus(id, st)

\* The calls on game history and the jackpot, one request at a time, the
\* rounds played being those of G.
JackpotCalls(p, every, G) ==
    \/ \E g \in G : AllIdle /\ createGameHistoryCall(p, g)
    \/ \E id \in Pick(every, IdsOf(users) \cup {0}) : AllIdle /\ getGameHistory(id)
    \/ AllIdle /\ getJackpotCall(p)
    \/ \E w \in Pick(every, IdsOf(users) \cup {0}) :
         AllIdle /\ updateJackpot(IF w = 0 THEN Str(5, 1) ELSE Str(10000000, 8), w)

\* The calls on farm cats, one request at a time.
FarmCalls(every) ==
    \/ \E id \in Pick(every, IdsOf(users)) : AllIdle /\ getFarmData(id)
    \/ \E c \in Pick(every, CatInputs) : AllIdle /\ createFarmCat(c)
    \/ \E id \in Pick(every, IdsOf(cats)) : AllIdle /\ getFarmCat(id)
    \/ \E id \in Pick(every, IdsOf(cats)) : AllIdle /\ upgradeFarmCat(id, 2, 3)
    \/ \E id \in Pick(every, IdsOf(users)) : AllIdle /\ claimFarmRewards(id)

\* The rounds played while requests overlap: losses, of either bet.
Losses == {g \in Games : g.winAmount = Undefined}

\* The round played beside every other method: one loss.
OneLoss == {g \in Losses : g.betAmount = Str(25, 2)}

\* A call in flight goes on to the end of its next store operation.
Continue(p) ==
    /\ calls[p].op # "idle"
    /\ \E fail \in BOOLEAN :
         CASE calls[p].op = "init" -> initStep(p, fail)
           [] calls[p].op = "updateDepositStatus" -> updateDepositStatusStep(p, fail)
           [] calls[p].op = "createGameHistory" -> createGameHistoryStep(p, fail)
           [] calls[p].op = "getJackpot" -> getJackpotStep(p, fail)

\* Every method, one request at a time.
Next ==
    \/ \E p \in Proc : initCall(p)
    \/ UserCalls(FALSE)
    \/ \E p \in Proc : MoneyCalls(p, FALSE)
    \/ \E p \in Proc : JackpotCalls(p, FALSE, OneLoss)
    \/ FarmCalls(FALSE)
    \/ \E p \in Proc : Continue(p)

Spec == Init /\ [][Next]_vars

\* The user methods, one request at a time.
NextUsers ==
    \/ \E p \in Proc : initCall(p)
    \/ UserCalls(TRUE)
    \/ \E p \in Proc : Continue(p)

SpecUsers == Init /\ [][NextUsers]_vars

\* The deposit and withdrawal methods, one request at a time, and createUser
\* for the owners.
NextMoney ==
    \/ \E p \in Proc : initCall(p)
    \/ \E u \in InsertUsers : AllIdle /\ createUser(u)
    \/ \E p \in Proc : MoneyCalls(p, TRUE)
    \/ \E p \in Proc : Continue(p)

SpecMoney == Init /\ [][NextMoney]_vars

\* The game-history and jackpot methods, one request at a time.
NextJackpot ==
    \/ \E p \in Proc : initCall(p)
    \/ \E p \in Proc : JackpotCalls(p, TRUE, Games)
    \/ \E p \in Proc : Continue(p)

SpecJackpot == Init /\ [][NextJackpot]_vars

\* The game-history and jackpot methods with requests that overlap: a call
\* is made while others are in flight (never while init is).
NextJackpotRace ==
    \/ \E p \in Proc : initCall(p)
    \/ \E p \in Proc, g \in Losses : createGameHistoryCall(p, g)
    \/ \E p \in Proc : getJackpotCall(p)
    \/ NoInit /\ updateJackpot(Str(5, 1), 0)
    \/ \E p \in Proc : Continue(p)

SpecJackpotRace == Init /\ [][NextJackpotRace]_vars

\* The farm methods, one request at a time, and createUser for the owners.
NextFarm ==
    \/ \E p \in Proc : initCall(p)
    \/ \E u \in InsertUsers : AllIdle /\ createUser(u)
    \/ FarmCalls(TRUE)
    \/ \E p \in Proc : Continue(p)

SpecFarm == Init /\ [][NextFarm]_vars

\* The music manager alone: its callers, the audio element's events and
\* the promises of audio.play(), fulfilled or rejected.
NextMusic ==
    \/ initializeAudio
    \/ playCall
    \/ pauseCall
    \/ \E enabled \in BOOLEAN : setEnabledCall(enabled)
    \/ ended
    \/ error
    \/ playFulfilled
    \/ playRejected

SpecMusic == Init /\ [][NextMusic]_vars

\* No call of play() waits for audio.play().
NoPlayPending == backgroundMusicManager.audio.pending = 0

\* The music manager in a browser where audio.play() is rejected for every
\* track, and a caller who asks it to play only while no play() is waiting.
\* A promise settles in the end: the rejection is weakly fair.
NextMusicRejecting ==
    \/ initializeAudio
    \/ NoPlayPending /\ playCall
    \/ pauseCall
    \/ NoPlayPending /\ setEnabledCall(TRUE)
    \/ setEnabledCall(FALSE)
    \/ playRejected

SpecMusicRejecting == Init /\ [][NextMusicRejecting]_vars /\ WF_vars(playRejected)

\* -------------------------------------------------------------- properties

\* The integer that a decimal string is in units of 10^-d.
Scaled(s, d) == s.mant * Pow10(d - s.dec)

\* The last call was createGameHistory and returned the saved round.
GameReturned == last.op = "createGameHistory" /\ last.result.kind = "doc"

\* C1: a createGameHistory call for a losing round (winAmount missing or
\* zero) that returns leaves the jackpot at J + B/100 with 8 decimals, J the
\* amount stored before the call and B the bet.
C1_LossAccruesOnePercent ==
    (GameReturned /\ (last.args.winAmount = Undefined \/ last.args.winAmount.mant = 0))
    => \A j \in last.local.before :
         \E k \in jackpots :
            /\ k._id = j._id
            /\ k.amount = Str(Scaled(j.amount, 8) + Scaled(last.args.betAmount, 6), 8)

\* C1's case: a losing round of bet 1.00 on a jackpot of "0.5" returned.
C1_Witness ==
    /\ GameReturned
    /\ last.args.winAmount = Str(0, 2)
    /\ last.args.betAmount = Str(100, 2)
    /\ \E j \in last.local.before : j.amount = Str(5, 1)
    /\ \E k \in jackpots : k.amount = Str(51000000, 8)

\* C9: a createGameHistory call for a round whose winAmount is not zero
\* saves the round and leaves every jackpot document (amount, updatedAt) as
\* it was before the call (seen when it has returned and no other call has
\* begun).
C9_WinLeavesJackpot ==
    (GameReturned /\ AllIdle
       /\ last.args.winAmount # Undefined /\ last.args.winAmount.mant # 0)
    => /\ jackpots = last.local.before
       /\ \E g \in games :
            /\ g._id = last.oid
            /\ g.betAmount = last.args.betAmount
            /\ g.winAmount = last.args.winAmount
            /\ last.result.val = convertMongoGameHistory(g)

\* C9's case: a winning round returned while a jackpot document exists.
C9_Witness ==
    /\ GameReturned
    /\ AllIdle
    /\ last.args.winAmount = Str(50, 2)
    /\ jackpots # {}
    /\ games # {}

\* C2: a createUser call that returns has stored a user whose password is a
\* hash of the supplied one and not the supplied text, with balance
\* "1000.00", meowBalance "0.00000000", isAdmin false and isBanned false,
\* whatever the input carries; the user it reports says the same.
C2_CreateUserHashesAndDefaults ==
    (last.op = "createUser" /\ last.result.kind = "doc")
    => \E u \in users :
         /\ u._id = last.oid
         /\ u.username = last.args.username
         /\ u.password # last.args.password
         /\ u.password.kind = "bcrypt"
         /\ u.password.text = last.args.password.text
         /\ u.balance = Str(100000, 2)
         /\ u.meowBalance = Str(0, 8)
         /\ u.isAdmin = FALSE
         /\ u.isBanned = FALSE
         /\ last.result.val.password = u.password
         /\ last.result.val.balance = u.balance
         /\ last.result.val.meowBalance = u.meowBalance
         /\ last.result.val.isAdmin = FALSE
         /\ last.result.val.isBanned = FALSE

\* C2's case: createUser returned for an input that asks for a balance of
\* its own and for the admin and banned flags.
C2_Witness ==
    /\ last.op = "createUser"
    /\ last.result.kind = "doc"
    /\ last.args.isAdmin
    /\ last.args.isBanned
    /\ last.args.balance = Str(999999, 2)
    /\ \E u \in users : u._id = last.oid

\* The last call was banUser, made while connected with the id the storage
\* reports for a stored user, and its store operation did not fail.
BanUserReturned ==
    /\ last.op = "banUser"
    /\ last.connected
    /\ ~last.failed
    /\ \E u \in users : NumericId(u._id) = last.args.userId

\* C3: banUser(id, banned), called with the id the storage reported for a
\* stored user, leaves that user's isBanned flag equal to banned.
C3_BanUserSetsFlag ==
    BanUserReturned
    => \A u \in users : NumericId(u._id) = last.args.userId
                            => u.isBanned = last.args.banned

\* The methods by what they give back when they have nothing to give.
CreateOps == {"createUser", "createDeposit", "createWithdrawal", "createGameHistory"}
VoidOps ==
    {"init", "updateUserBalance", "updateDepositStatus", "updateWithdrawalStatus",
     "updateJackpot", "banUser", "upgradeFarmCat", "claimFarmRewards"}
UndefinedOps == {"getUser", "getUserByUsername", "getWithdrawal"}
ListOps ==
    {"getDeposits", "getWithdrawals", "getUserWithdrawals", "getGameHistory",
     "getAllUsers"}
NullOps == {"createFarmCat", "getFarmCat"}

\* The returned call gave the empty or default value of its method.
Defaulted(l) ==
    CASE l.op \in VoidOps -> l.result.kind = "void"
      [] l.op \in UndefinedOps -> l.result.kind = "undefined"
      [] l.op \in ListOps -> l.result.kind = "list" /\ l.result.items = <<>>
      [] l.op \in NullOps -> l.result.kind = "null"
      [] l.op = "getJackpot" ->
           /\ l.result.kind = "doc"
           /\ l.result.val.id = 1
           /\ l.result.val.amount = Str(10000000, 8)
           /\ l.result.val.lastWinnerId = NullNum
           /\ l.result.val.lastWonAt = NoTime
      [] l.op = "getFarmData" ->
           /\ l.result.kind = "doc"
           /\ l.result.val.cats = <<>>
           /\ l.result.val.totalProduction = 0
           /\ l.result.val.unclaimedMeow = Str(0, 8)
      [] OTHER -> FALSE

\* C4 as stated: whatever method it was, a call whose store operation failed
\* did not pass the failure on to its caller.
C4_NoMethodPropagates == last.failed => last.result.kind # "throw"

\* C4 amended: a call whose store operation failed returned the empty or
\* default value of its method or nothing, unless it was createUser,
\* createDeposit, createWithdrawal or createGameHistory, which throw.
C4_AllButCreatesCatch ==
    last.failed => IF last.op \in CreateOps THEN last.result.kind = "throw"
                   ELSE Defaulted(last)

\* C4's case: reading the deposits failed while a deposit is stored, and
\* the caller got an empty list.
C4_Witness ==
    /\ last.op = "getDeposits"
    /\ last.failed
    /\ deposits # {}
    /\ last.result.kind = "list"

\* What calls made while not connected give back: the empty or default
\* value, except the four create methods, which throw.
C10_Results ==
    (~last.connected /\ last.op \notin {"none", "init"})
    => IF last.op \in CreateOps THEN last.result.kind = "throw"
       ELSE Defaulted(last)

\* C10: while the storage is not connected no step changes a stored
\* document, and a method called then returns undefined, [], null, the
\* default jackpot "0.10000000", the empty farm, or nothing.
C10_NotConnectedNoEffect ==
    /\ []C10_Results
    /\ [][~isConnected => store' = store]_vars

\* C10's case: users are stored, the storage is no longer connected, and
\* getAllUsers gave an empty list.
C10_Witness ==
    /\ ~isConnected
    /\ ~last.connected
    /\ last.op = "getAllUsers"
    /\ users # {}
    /\ last.result.kind = "list"
    /\ last.result.items = <<>>

\* The last call was a losing createGameHistory that saved the jackpot.
AccrualReturned == GameReturned /\ last.local.pc = "saveJackpot"

\* C5: the jackpot amount a losing createGameHistory saves is the amount it
\* read plus 1% of its bet, whatever the store holds when it saves: nothing
\* ties the save to the read.
C5_SaveWritesWhatWasRead ==
    AccrualReturned
    => \E k \in jackpots :
         /\ k._id = last.local.read._id
         /\ k.amount = Str(Scaled(last.local.read.amount, 8)
                             + Scaled(last.args.betAmount, 6), 8)

\* C5's case, the lost update: two losing rounds are saved, the second
\* accrual overwrote an amount that the first had raised after the second's
\* read, and the jackpot is above what was read by one increase only.
C5_Witness ==
    /\ AccrualReturned
    /\ Cardinality(games) = 2
    /\ \A g \in games : g.winAmount.mant = 0
    /\ \E b \in Bets :
         last.local.overwrote.amount =
             Str(Scaled(last.local.read.amount, 8) + Scaled(b, 6), 8)
    /\ \E k \in jackpots :
         /\ k._id = last.local.read._id
         /\ k.amount = Str(Scaled(last.local.read.amount, 8)
                             + Scaled(last.args.betAmount, 6), 8)
         /\ Scaled(k.amount, 8) < Scaled(last.local.overwrote.amount, 8)
                                    + Scaled(last.args.betAmount, 6)

\* C7: at most one Jackpot document exists.
C7_SingleJackpot == Cardinality(jackpots) <= 1

\* The last call was updateDepositStatus(id, "approved"), made while
\* connected with the id the storage reports for a stored deposit, and no
\* store operation of it failed.
ApprovalReturned ==
    /\ last.op = "updateDepositStatus"
    /\ last.args.status = "approved"
    /\ last.connected
    /\ ~last.failed
    /\ \E d \in deposits : NumericId(d._id) = last.args.id

\* C6: updateDepositStatus(id, "approved") writes the deposit's status
\* (before, and apart from, the credit of the owner's balance): once it has
\* returned, the deposit of that id is approved.
C6_ApprovalWritesStatus ==
    ApprovalReturned
    => \E d \in deposits : NumericId(d._id) = last.args.id /\ d.status = "approved"

\* C8: the status of every deposit and of every withdrawal is pending,
\* approved or rejected.
C8_StatusEnum ==
    {d.status : d \in deposits} \cup {w.status : w \in withdrawals}
        \subseteq {"pending", "approved", "rejected"}

\* C8's case: a deposit and a withdrawal are stored and a status outside
\* the three was asked for a stored deposit, by the id reported for it.
C8_Witness ==
    /\ last.op = "updateDepositStatus"
    /\ last.args.status = "cancelled"
    /\ last.connected
    /\ ~last.failed
    /\ \E d \in deposits : NumericId(d._id) = last.args.id
    /\ withdrawals # {}

\* The stored cats whose owner reference reads as the user id.
OwnedBy(userId) == {cat \in cats : NumericRef(cat.userId) = userId}

RECURSIVE TotalOf(_)
\* The sum of the production of a set of cats.
TotalOf(S) ==
    IF S = {} THEN 0
    ELSE LET cat == CHOOSE x \in S : TRUE IN cat.production + TotalOf(S \ {cat})

\* The last call was getFarmData, made while connected, and its find did
\* not fail.
FarmDataReturned ==
    /\ last.op = "getFarmData"
    /\ last.connected
    /\ ~last.failed

\* C11: getFarmData(userId) returns as totalProduction the sum of the
\* production of the cats owned by userId (0 when there are none), and as
\* cats those cats, each once, and no cat of another user.
C11_FarmDataOfOwner ==
    FarmDataReturned
    => LET got == last.result.val
           owned == OwnedBy(last.args.userId)
       IN  /\ got.totalProduction = TotalOf(owned)
           /\ Len(got.cats) = Cardinality(owned)
           /\ {got.cats[i].id : i \in 1..Len(got.cats)}
                  = {NumericId(cat._id) : cat \in owned}
           /\ \A i \in 1..Len(got.cats) :
                /\ got.cats[i].userId = last.args.userId
                /\ \E cat \in owned :
                     /\ got.cats[i].id = NumericId(cat._id)
                     /\ got.cats[i].production = cat.production
                     /\ got.cats[i].level = cat.level

\* C11's case: the user owns a cat, another user owns one too, and
\* getFarmData returned the one with its production as the total.
C11_Witness ==
    /\ FarmDataReturned
    /\ Cardinality(cats) = 2
    /\ Len(last.result.val.cats) = 1
    /\ last.result.val.totalProduction = last.result.val.cats[1].production
    /\ \E cat \in cats : NumericRef(cat.userId) # last.args.userId

\* The step is a claimFarmRewards call, made while connected, whose
\* updateMany did not fail.
ClaimStep ==
    /\ last'.op = "claimFarmRewards"
    /\ last'.connected
    /\ ~last'.failed
    /\ calls' = calls
    /\ now' # now

\* C12: claimFarmRewards(userId) sets lastClaimed to the current time on
\* every cat owned by userId and changes nothing else: the other cats, the
\* level and production of every cat, the users and the other collections
\* stay as they were.
C12_ClaimStampsOwnedOnly ==
    [][ClaimStep =>
          /\ cats' = {IF NumericRef(cat.userId) = last'.args.userId
                      THEN [cat EXCEPT !.lastClaimed = now] ELSE cat : cat \in cats}
          /\ \A cat \in cats : \E c \in cats' :
                /\ c._id = cat._id
                /\ c.level = cat.level
                /\ c.production = cat.production
                /\ c.userId = cat.userId
          /\ UNCHANGED <<users, deposits, withdrawals, games, jackpots>>]_vars

\* C12's case: claimFarmRewards returned, a cat of the user carries a
\* lastClaimed later than its creation, and a cat of another user does not.
C12_Witness ==
    /\ last.op = "claimFarmRewards"
    /\ last.connected
    /\ ~last.failed
    /\ \E cat \in cats : /\ NumericRef(cat.userId) = last.args.userId
                         /\ cat.lastClaimed > cat.createdAt
    /\ \E cat \in cats : /\ NumericRef(cat.userId) # last.args.userId
                         /\ cat.lastClaimed = cat.createdAt

\* C13: getUser, called while connected with the id that the storage
\* reports for a stored user, finds that user.
C13_GetUserFindsReportedId ==
    (/\ last.op = "getUser"
     /\ last.connected
     /\ ~last.failed
     /\ \E u \in users : NumericId(u._id) = last.args.id)
    => /\ last.result.kind = "doc"
       /\ last.result.val.id = last.args.id

\* The stored users that a deposit's owner reference reads as.
OwnersOf(d) == {u \in users : NumericId(u._id) = NumericRef(d.userId)}

\* C14: updateDepositStatus(id, "approved") on a stored deposit whose owner
\* is stored leaves the owner's balance at the previous balance plus the
\* deposit's amount, to 2 decimals, and the owner's meowBalance as it was.
C14_ApprovalCredits ==
    (ApprovalReturned /\ AllIdle)
    => \A d \in deposits : NumericId(d._id) = last.args.id
         => \A u \in OwnersOf(d) : \E b \in last.local.before :
               /\ b._id = u._id
               /\ u.balance = Str(Scaled(b.balance, 2) + Scaled(d.amount, 2), 2)
               /\ u.meowBalance = b.meowBalance

\* The balance a user document is created with.
CreatedBalance(u) == IF u.isAdmin THEN 1000000 ELSE 100000

\* The amounts of a set of deposits, summed, in hundredths.
RECURSIVE AmountOf(_)
AmountOf(D) ==
    IF D = {} THEN 0
    ELSE LET d == CHOOSE x \in D : TRUE IN Scaled(d.amount, 2) + AmountOf(D \ {d})

\* C15: a deposit is added to its owner's balance at most once: whatever
\* updateDepositStatus calls were made, a user's balance is at most the
\* balance the user was created with plus the amounts of the user's
\* deposits, each counted once.
C15_CreditedAtMostOnce ==
    \A u \in users :
        Scaled(u.balance, 2) <=
            CreatedBalance(u)
              + AmountOf({d \in deposits : NumericRef(d.userId) = NumericId(u._id)})

\* C15's case: "approved" was asked twice in a row for the same stored
\* deposit, whose owner is stored, and both calls returned.
C15_Witness ==
    /\ ApprovalReturned
    /\ AllIdle
    /\ last.local.repeated
    /\ \E d \in deposits : NumericId(d._id) = last.args.id /\ OwnersOf(d) # {}

\* C16: when createGameHistory throws, no round of that call is stored and
\* the jackpot is as it was before the call.
C16_ThrowLeavesNothing ==
    (last.op = "createGameHistory" /\ last.result.kind = "throw")
    => /\ \A g \in games : g._id # last.oid
       /\ (AllIdle /\ last.oid # NullOid) => jackpots = last.local.before

\* The stored users named "admin".
Admins == {u \in users : u.username = "admin"}

\* C17: after an init that connected and whose store operations all
\* succeeded there is a jackpot record and exactly one user named "admin",
\* with isAdmin true.
C17_InitLeavesOneAdmin ==
    (last.op = "init" /\ ~last.failed /\ isConnected /\ AllIdle)
    => /\ jackpots # {}
       /\ Cardinality(Admins) = 1
       /\ \A u \in Admins : u.isAdmin

\* C18: once the manager is initialised with N >= 1 tracks, currentTrackIndex
\* is within 0..N-1 and currentTrackName is availableTracks[currentTrackIndex]
\* in every state, and each 'ended' or 'error' event moves the index on by
\* one modulo N: after the last track comes the first.
TrackIsCurrent ==
    LET m == backgroundMusicManager
        N == Len(m.availableTracks)
    IN  m.isInitialized =>
          /\ N >= 1
          /\ m.currentTrackIndex \in 0..(N - 1)
          /\ m.currentTrackName = m.availableTracks[m.currentTrackIndex + 1]

C18_TracksRotate ==
    /\ []TrackIsCurrent
    /\ [][(ended \/ error) =>
            backgroundMusicManager'.currentTrackIndex =
               (backgroundMusicManager.currentTrackIndex + 1)
                  % Len(backgroundMusicManager.availableTracks)]_vars

\* All the tracks asked for were found and the manager stands on the last.
C18_Witness ==
    /\ backgroundMusicManager.isInitialized
    /\ Len(backgroundMusicManager.availableTracks) = MaxNumberedTracks + 1
    /\ backgroundMusicManager.currentTrackIndex = MaxNumberedTracks
    /\ backgroundMusicManager.currentTrackName = TrackName(MaxNumberedTracks)

\* C19: where audio.play() fails for every track, a call of play() that
\* waits leads to a state where none waits: the retries of play() through
\* playNextTrack() come to an end.
C19_PlayStopsRetrying == ~NoPlayPending ~> NoPlayPending

====
